---- MODULE Spec2Model ----
(***************************************************************************)
(* Leafs Injury Roulette (src/index.tsx): the wheel's spin handler, its    *)
(* delayed resolution callback, the App's handleSpinEnd and the outcome    *)
(* fetcher generateFunnyInjury, as a state machine.                        *)
(*                                                                         *)
(* React state is modelled as committed at the end of each handler: a      *)
(* handler runs to completion (or to its await) and the component is       *)
(* re-rendered before the next event is delivered.                         *)
(***************************************************************************)
EXTENDS Integers, Sequences, FiniteSets, TLC

(***************************************************************************)
(* Bounds of the model.                                                    *)
(***************************************************************************)
\* Spins are accepted in Spec only while the new rotation stays within this.
MaxRotation == 5600
\* In SpecLive (rotation kept modulo one turn) the user clicks only while
\* fewer than this many sessions are outstanding.
MaxPending == 2
\* Math.random() is modelled as the rationals k / RandDen, k in 0..RandDen-1.
RandDen == 360
\* The rotations 0..MaxResolve are resolved in SpecPure.
MaxResolve == 3700
\* The full turns k in 0..MaxTurns are added in SpecPure (periodicity).
MaxTurns == 2

(***************************************************************************)
(* Program constants.                                                      *)
(***************************************************************************)
SEGMENTS ==
  << "Day-to-Day", "Week-to-Week", "Month-to-Month", "Indefinite",
     "Game-Time Decision", "Robidas Island", "Maintenance Day",
     "Until Playoffs" >>

\* The degrees of a full turn, the literal 360 of handleSpin.
FullTurn == 360
\* extraSpins = 5 + Math.floor(Math.random() * 5)
MinSpins == 5
SpinChoices == 5

\* The value JavaScript gives for a property or an array element that is
\* not there.
Undefined == "<undefined>"

Categories == { SEGMENTS[i] : i \in DOMAIN SEGMENTS }

(***************************************************************************)
(* JavaScript arithmetic.                                                  *)
(***************************************************************************)
\* a % b of JavaScript for integers and b > 0: the remainder has the sign
\* of the dividend.
JsMod(a, b) == IF a >= 0 THEN a % b ELSE 0 - ((0 - a) % b)

\* The values Math.random() may return, [0, 1), as numerators over RandDen.
Random == 0 .. (RandDen - 1)

\* Math.floor(Math.random() * n) for the draw u / RandDen.
FloorRandomTimes(u, n) == (u * n) \div RandDen

\* SEGMENTS[i] of JavaScript (0-based; undefined outside the array).
SegmentAt(i) ==
  IF (i + 1) \in DOMAIN SEGMENTS THEN SEGMENTS[i + 1] ELSE Undefined

(***************************************************************************)
(* Wheel.handleSpin: the arithmetic.                                       *)
(***************************************************************************)
\* const segmentAngle = 360 / SEGMENTS.length  (45: the division is exact)
segmentAngle == FullTurn \div Len(SEGMENTS)

\* const randomSegment = Math.floor(Math.random() * SEGMENTS.length)
\* (computed by handleSpin and never used)
randomSegment(u) == FloorRandomTimes(u, Len(SEGMENTS))

\* extraSpins with the range of the draw off by one:
\* 5 + Math.floor(Math.random() * 6)
extraSpinsOffByOne(u) == MinSpins + FloorRandomTimes(u, SpinChoices + 1)

\* const extraSpins = 5 + Math.floor(Math.random() * 5)
extraSpins(u) == MinSpins + FloorRandomTimes(u, SpinChoices)

\* const randomOffset = Math.floor(Math.random() * 360)
randomOffset(u) == FloorRandomTimes(u, FullTurn)

\* const newRotation = rotation + (extraSpins * 360) + randomOffset
newRotation(prev, u2, u3) ==
  prev + (extraSpins(u2) * FullTurn) + randomOffset(u3)

(***************************************************************************)
(* The setTimeout callback of handleSpin: resolution of a rotation.        *)
(***************************************************************************)
\* normalizedRotation with the reduction modulo 360 left out.
normalizedRotationRaw(r) == r

\* const normalizedRotation = newRotation % 360
normalizedRotation(r) == JsMod(r, FullTurn)

\* degreesFromTop measured the wrong way round: normalizedRotation itself.
degreesFromTopMirrored(r) == normalizedRotation(r)

\* degreesFromTop with the final % 360 left out: 360 - normalizedRotation.
degreesFromTopUnwrapped(r) == FullTurn - normalizedRotation(r)

\* const degreesFromTop = (360 - normalizedRotation) % 360
degreesFromTop(r) == JsMod(FullTurn - normalizedRotation(r), FullTurn)

\* const segmentIndex = Math.floor(degreesFromTop / segmentAngle)
segmentIndex(r) == degreesFromTop(r) \div segmentAngle

\* onSpinEnd(SEGMENTS[segmentIndex]): the category handed to handleSpinEnd
selectedSegment(r) == SegmentAt(segmentIndex(r))

(***************************************************************************)
(* JavaScript values: the Outcome Record and what JSON.parse may give.     *)
(***************************************************************************)
Fields ==
  { "player_alias", "diagnosis", "timeline", "coach_quote", "cap_implication" }

\* null: the initial resultData, and JSON.parse("null")
JsNull == [tag |-> "null"]

\* An object read through the five fields; a missing key reads Undefined.
JsObject(pa, dx, tl, cq, ci) ==
  [tag |-> "object", player_alias |-> pa, diagnosis |-> dx, timeline |-> tl,
   coach_quote |-> cq, cap_implication |-> ci]

\* What a field of a parsed response may hold: nothing, the empty string,
\* some non-empty string.
FieldValues == { Undefined, "", "text" }

JsonValues ==
  { JsNull } \cup
  { JsObject(pa, dx, tl, cq, ci) :
      pa \in FieldValues, dx \in FieldValues, tl \in FieldValues,
      cq \in FieldValues, ci \in FieldValues }

\* A completion of a JavaScript computation: a returned value or a throw.
Return(v) == [kind |-> "return", value |-> v]
Throw == [kind |-> "throw", value |-> JsNull]

(***************************************************************************)
(* The generation service: how ai.models.generateContent may settle.       *)
(* A rejected call (network failure, error response) or a response whose   *)
(* text is either not JSON or the JSON text of some value.                 *)
(***************************************************************************)
Rejected(why) == [settled |-> "rejected", reason |-> why, valid |-> FALSE,
                  json |-> JsNull]
Resolved(isJson, v) == [settled |-> "resolved", reason |-> "", valid |-> isJson,
                        json |-> v]

ServiceOutcomes ==
  { Rejected("network"), Rejected("errorResponse"), Resolved(FALSE, JsNull) }
  \cup { Resolved(TRUE, v) : v \in JsonValues }

\* The outcomes the spin machine is run against.
SpinOutcomes ==
  { Rejected("network"),
    Resolved(FALSE, JsNull),
    Resolved(TRUE, JsNull),
    Resolved(TRUE, JsObject(Undefined, Undefined, Undefined, Undefined, Undefined)),
    Resolved(TRUE, JsObject("text", "text", "text", "text", "text")) }

(***************************************************************************)
(* generateFunnyInjury                                                     *)
(***************************************************************************)
\* let promptTimeline = timelineCategory; if (... === "Robidas Island") ...
promptTimeline(timelineCategory) ==
  IF timelineCategory = "Robidas Island"
  THEN "Long Term Injured Reserve (LTIR) / Robidas Island"
  ELSE timelineCategory

\* const response = await ai.models.generateContent(...): a rejection is
\* thrown at the await.
awaitGenerateContent(svc) ==
  IF svc.settled = "rejected" THEN Throw ELSE Return(svc)

\* JSON.parse(response.text): throws on text that is not JSON.
JSONparse(response) ==
  IF response.valid THEN Return(response.json) ELSE Throw

\* The try block: the await, then return JSON.parse(response.text).
tryBlock(svc) ==
  LET response == awaitGenerateContent(svc)
  IN  IF response.kind = "throw" THEN Throw ELSE JSONparse(response.value)

\* The catch block's record with timeline: promptTimeline in place of
\* timeline: timelineCategory.
fallbackOfPrompt(timelineCategory) ==
  JsObject("Core Four Member", "Failed to load AI wit.",
           promptTimeline(timelineCategory),
           "We're just taking it one error at a time.",
           "We are over the limit.")

\* The record the catch block returns.
fallbackRecord(timelineCategory) ==
  JsObject("Core Four Member", "Failed to load AI wit.", timelineCategory,
           "We're just taking it one error at a time.",
           "We are over the limit.")

\* try { ... } catch (error) { console.error(...); return { ... } }
generateFunnyInjury(timelineCategory, svc) ==
  LET body == tryBlock(svc)
  IN  IF body.kind = "throw"
      THEN Return(fallbackRecord(timelineCategory))
      ELSE body

\* All five fields present and non-empty.
WellFormed(rec) ==
  /\ rec.tag = "object"
  /\ \A f \in Fields : rec[f] # Undefined /\ rec[f] # ""

(***************************************************************************)
(* State.                                                                  *)
(***************************************************************************)
VARIABLES
  rotation,     \* Wheel: const [rotation, setRotation] = useState(0)
  isSpinning,   \* App: const [isSpinning, setIsSpinning] = useState(false)
  loadingAI,    \* App: const [loadingAI, setLoadingAI] = useState(false)
  resultData,   \* App: const [resultData, setResultData] = useState(null)
  timers,       \* pending setTimeout callbacks, oldest first: each holds
                \* the newRotation its closure captured
  fetches,      \* handleSpinEnd calls suspended at their await: each holds
                \* the category its generateFunnyInjury call was given
  lastOp,       \* history: the operation that ran last
  resultFor,    \* history: the category whose fetch produced resultData
  call          \* SpecPure only: a function, its arguments and its result

vars ==
  << rotation, isSpinning, loadingAI, resultData, timers, fetches, lastOp,
     resultFor, call >>

NoCall == [fn |-> "none"]

Init ==
  /\ rotation = 0
  /\ isSpinning = FALSE
  /\ loadingAI = FALSE
  /\ resultData = JsNull
  /\ timers = << >>
  /\ fetches = << >>
  /\ lastOp = "init"
  /\ resultFor = Undefined
  /\ call = NoCall

\* <Wheel isSpinning={isSpinning || loadingAI} />: the prop that handleSpin
\* tests and that disables the button.
WheelIsSpinning == isSpinning \/ loadingAI

\* The draws of Math.random() the spin machine is run against: they give
\* extraSpins 5 and 9 and randomOffset 0, 40 and RandDen-1 (of RandDen).
SpinDraws == { 0, RandDen \div 9, RandDen - 1 }

RemoveAt(seq, i) == SubSeq(seq, 1, i - 1) \o SubSeq(seq, i + 1, Len(seq))

(***************************************************************************)
(* Wheel.handleSpin, a click on SPIN.                                      *)
(***************************************************************************)
\* if (isSpinning) return;
spinRejected ==
  /\ WheelIsSpinning
  /\ lastOp' = "spinRejected"
  /\ UNCHANGED << rotation, isSpinning, loadingAI, resultData, timers,
                  fetches, resultFor, call >>

\* spinAccepted storing the rotation reduced to one turn:
\* setRotation(newRotation % 360)
spinAcceptedNormalized(stored, captured) ==
  /\ ~WheelIsSpinning
  /\ rotation' = stored % FullTurn
  /\ timers' = Append(timers, captured)
  /\ lastOp' = "spin"
  /\ UNCHANGED << isSpinning, loadingAI, resultData, fetches, resultFor,
                  call >>

\* spinAccepted raising the App's flag: setIsSpinning(true) at spin start
spinAcceptedSetsFlag(stored, captured) ==
  /\ ~WheelIsSpinning
  /\ rotation' = stored
  /\ timers' = Append(timers, captured)
  /\ lastOp' = "spin"
  /\ isSpinning' = TRUE
  /\ UNCHANGED << loadingAI, resultData, fetches, resultFor, call >>

\* setRotation(stored); setTimeout(() => { ... captured ... }, 3000)
spinAccepted(stored, captured) ==
  /\ ~WheelIsSpinning
  /\ rotation' = stored
  /\ timers' = Append(timers, captured)
  /\ lastOp' = "spin"
  /\ UNCHANGED << isSpinning, loadingAI, resultData, fetches, resultFor,
                  call >>

handleSpin ==
  \/ spinRejected
  \/ \E u1 \in SpinDraws, u2 \in SpinDraws, u3 \in SpinDraws :
       LET unusedSegment == randomSegment(u1)
           target == newRotation(rotation, u2, u3)
       IN  /\ target <= MaxRotation
           /\ spinAccepted(target, target)

(***************************************************************************)
(* The setTimeout callback fires (timers of equal delay fire in the order  *)
(* they were set) and calls App.handleSpinEnd, which runs to its await:    *)
(*   setLoadingAI(true); const data = await generateFunnyInjury(...)       *)
(***************************************************************************)
\* handleSpinEnd clearing the flag and returning without a fetch.
handleSpinEndSkipsFetch(category) ==
  /\ loadingAI' = FALSE
  /\ fetches' = fetches

handleSpinEndStart(category) ==
  /\ loadingAI' = TRUE
  /\ fetches' = Append(fetches, category)

\* The callback set with setInterval instead of setTimeout: it stays
\* pending after it has fired.
timerFiresAgain ==
  /\ timers # << >>
  /\ handleSpinEndStart(selectedSegment(Head(timers)))
  /\ timers' = timers
  /\ lastOp' = "timer"
  /\ UNCHANGED << rotation, isSpinning, resultData, resultFor, call >>

timerFires ==
  /\ timers # << >>
  /\ handleSpinEndStart(selectedSegment(Head(timers)))
  /\ timers' = Tail(timers)
  /\ lastOp' = "timer"
  /\ UNCHANGED << rotation, isSpinning, resultData, resultFor, call >>

(***************************************************************************)
(* The generation service settles the call of the i-th suspended           *)
(* handleSpinEnd, which resumes:                                           *)
(*   setResultData(data); setLoadingAI(false); setIsSpinning(false)        *)
(* Were generateFunnyInjury to throw, handleSpinEnd would end at its await *)
(* and set nothing.                                                        *)
(***************************************************************************)
handleSpinEndResume(completion) ==
  IF completion.kind = "throw"
  THEN UNCHANGED << resultData, loadingAI, isSpinning >>
  ELSE /\ resultData' = completion.value
       /\ loadingAI' = FALSE
       /\ isSpinning' = FALSE

fetchSettles ==
  \E i \in DOMAIN fetches, svc \in SpinOutcomes :
    /\ handleSpinEndResume(generateFunnyInjury(fetches[i], svc))
    /\ resultFor' = IF generateFunnyInjury(fetches[i], svc).kind = "throw"
                    THEN resultFor
                    ELSE fetches[i]
    /\ fetches' = RemoveAt(fetches, i)
    /\ lastOp' = "settle"
    /\ UNCHANGED << rotation, timers, call >>

Next == handleSpin \/ timerFires \/ fetchSettles

Spec == Init /\ [][Next]_vars

(***************************************************************************)
(* The service may never answer, the timer always fires: the delayed       *)
(* callback is fair, the settlement of a fetch is not.                     *)
(***************************************************************************)
SpecTimerFair == Spec /\ WF_vars(timerFires)

(***************************************************************************)
(* Behaviours with unboundedly many spins.  rotation grows without bound   *)
(* in the program; here it is recorded modulo one full turn, which keeps   *)
(* newRotation % 360 and so every resolved category, and the user clicks   *)
(* only while fewer than MaxPending sessions are outstanding.  The timer   *)
(* fires and every call of the generation service settles.                 *)
(***************************************************************************)
Outstanding == Len(timers) + Len(fetches)

\* The draws of SpecLive: extraSpins 5, randomOffset 0 and 40 (of RandDen).
LiveDraws == { 0, RandDen \div 9 }

handleSpinLive ==
  \/ spinRejected
  \/ \E u1 \in LiveDraws, u2 \in LiveDraws, u3 \in LiveDraws :
       LET unusedSegment == randomSegment(u1)
           target == newRotation(rotation, u2, u3) % FullTurn
       IN  /\ Outstanding < MaxPending
           /\ spinAccepted(target, target)

NextLive == handleSpinLive \/ timerFires \/ fetchSettles

SpecLive ==
  Init /\ [][NextLive]_vars /\ WF_vars(timerFires) /\ WF_vars(fetchSettles)

(***************************************************************************)
(* The pure functions on their own: the resolution callback applied to a   *)
(* rotation r and to r + 360 k, the target rotation of a spin from a       *)
(* previous rotation and two draws, the fetcher on a category and a        *)
(* settlement of the service.                                              *)
(***************************************************************************)
PrevRotations == { 0, 1840 }

ResolveCall(r, k) == [fn |-> "resolve", r |-> r, k |-> k, done |-> FALSE]

TargetCall(p, u2, u3) ==
  [fn |-> "nextTarget", prev |-> p, u2 |-> u2, u3 |-> u3, done |-> FALSE]

FetchCall(c, svc) ==
  [fn |-> "fetch", category |-> c, svc |-> svc, done |-> FALSE]

PureInit ==
  /\ rotation = 0
  /\ isSpinning = FALSE
  /\ loadingAI = FALSE
  /\ resultData = JsNull
  /\ timers = << >>
  /\ fetches = << >>
  /\ lastOp = "init"
  /\ resultFor = Undefined
  /\ \/ \E r \in 0 .. MaxResolve, k \in 0 .. MaxTurns :
          call = ResolveCall(r, k)
     \/ \E p \in PrevRotations, u2 \in Random, u3 \in Random :
          call = TargetCall(p, u2, u3)
     \/ \E c \in Categories, svc \in ServiceOutcomes :
          call = FetchCall(c, svc)

machineVars ==
  << rotation, isSpinning, loadingAI, resultData, timers, fetches, lastOp,
     resultFor >>

applyResolve ==
  /\ call.fn = "resolve" /\ ~call.done
  /\ call' = [fn |-> "resolve", r |-> call.r, k |-> call.k, done |-> TRUE,
              index |-> segmentIndex(call.r),
              category |-> selectedSegment(call.r),
              shifted |-> segmentIndex(call.r + (FullTurn * call.k))]
  /\ UNCHANGED machineVars

applyNextTarget ==
  /\ call.fn = "nextTarget" /\ ~call.done
  /\ call' = [fn |-> "nextTarget", prev |-> call.prev, u2 |-> call.u2,
              u3 |-> call.u3, done |-> TRUE,
              out |-> newRotation(call.prev, call.u2, call.u3)]
  /\ UNCHANGED machineVars

applyFetch ==
  /\ call.fn = "fetch" /\ ~call.done
  /\ call' = [fn |-> "fetch", category |-> call.category, svc |-> call.svc,
              done |-> TRUE,
              out |-> generateFunnyInjury(call.category, call.svc)]
  /\ UNCHANGED machineVars

PureNext == applyResolve \/ applyNextTarget \/ applyFetch

SpecPure == PureInit /\ [][PureNext]_vars

(***************************************************************************)
(* Phases of the spin machine.                                             *)
(***************************************************************************)
\* Spinning: a resolution timer is pending.
Spinning == timers # << >>
\* FetchingOutcome: a fetch is awaiting settlement.
FetchingOutcome == fetches # << >>
\* Idle: the input gate is open, no timer is pending, no fetch in flight.
Idle == ~WheelIsSpinning /\ ~Spinning /\ ~FetchingOutcome

(***************************************************************************)
(* C1.  At most one spin session is in flight: the number of pending       *)
(* resolution timers plus the number of outcome fetches awaiting           *)
(* settlement is never greater than 1.                                     *)
(* Violated: isSpinning is never set, so the gate stays open while a timer *)
(* is pending and a second click is accepted.                              *)
(***************************************************************************)
C1_AtMostOneSession == Len(timers) + Len(fetches) <= 1

(***************************************************************************)
(* C2.  A step of handleSpin taken while a timer is pending or a fetch is  *)
(* awaiting settlement changes neither the Rotation State nor the pending  *)
(* resolution callbacks.                                                   *)
(* Violated: the guard tests loadingAI alone, which is false while the     *)
(* timer is pending and after the first of two overlapping fetches         *)
(* settles.                                                                *)
(***************************************************************************)
C2_SpinWhileBusyIsNoOp ==
  [][ ((Spinning \/ FetchingOutcome) /\ lastOp' \in { "spin", "spinRejected" })
        => (rotation' = rotation /\ timers' = timers) ]_vars

(***************************************************************************)
(* C3.  Every accepted spin eventually leads back to Idle, given that the  *)
(* timer fires and the call of the generation service settles.             *)
(* Violated under SpecLive: spins accepted while a timer is pending (C1)   *)
(* keep some timer pending for ever.                                       *)
(***************************************************************************)
C3_AcceptedSpinReturnsToIdle == (lastOp = "spin") ~> Idle

(***************************************************************************)
(* C4.  generateFunnyInjury never raises, and for every category and every *)
(* failure of the generation service (rejected call, error response,       *)
(* unparseable response text) it returns a record whose timeline is the    *)
(* input category and whose five fields are present and non-empty.         *)
(***************************************************************************)
ServiceFailed(svc) == svc.settled = "rejected" \/ ~svc.valid

C4_FetcherFallsBack ==
  (call.fn = "fetch" /\ call.done) =>
    /\ call.out.kind = "return"
    /\ ServiceFailed(call.svc) =>
         /\ call.out.value.tag = "object"
         /\ call.out.value.timeline = call.category
         /\ \A f \in Fields :
              call.out.value[f] # Undefined /\ call.out.value[f] # ""

\* The fetcher has answered a rejected call for the category whose prompt
\* name differs from its label.
C4_Witness ==
  /\ call.fn = "fetch" /\ call.done
  /\ call.svc = Rejected("errorResponse")
  /\ call.category = "Robidas Island"
  /\ call.out = Return(fallbackRecord("Robidas Island"))

(***************************************************************************)
(* C5.  Every Outcome Record written to the Result Store has all five      *)
(* fields present and non-empty.                                           *)
(* Violated: return JSON.parse(response.text) hands on whatever the        *)
(* service's JSON holds, an object without fields or null included.        *)
(***************************************************************************)
C5_StoredRecordsComplete ==
  (lastOp = "settle" \/ resultData # JsNull) => WellFormed(resultData)

(***************************************************************************)
(* C6.  As stated: for every rotation r >= 0 the category the resolution   *)
(* callback passes on is SEGMENTS[i] for the unique i with                 *)
(* i*360/8 <= (360 - (r mod 360)) mod 360 < (i+1)*360/8, and for r = 1840  *)
(* this is index 4.                                                        *)
(* Violated: 1840 mod 360 is 40, the effective angle 320, the index 7.     *)
(***************************************************************************)
UnderPointer(r, i) ==
  LET eff == (360 - (r % 360)) % 360
  IN  /\ i \in 0 .. 7
      /\ i * 360 <= eff * 8
      /\ eff * 8 < (i + 1) * 360

C6_AsStated ==
  (call.fn = "resolve" /\ call.done) =>
    /\ UnderPointer(call.r, call.index)
    /\ call.category = SEGMENTS[call.index + 1]
    /\ call.r = 1840 => call.index = 4

(***************************************************************************)
(* C6, amended.  For every rotation r >= 0 the category the resolution     *)
(* callback passes on is SEGMENTS[i] for the unique i with                 *)
(* i*360/8 <= (360 - (r mod 360)) mod 360 < (i+1)*360/8, the segment under *)
(* the top pointer after a clockwise rotation of r degrees; for r = 1840   *)
(* this is index 7.                                                        *)
(***************************************************************************)
C6_ResolvedSegment ==
  (call.fn = "resolve" /\ call.done) =>
    /\ UnderPointer(call.r, call.index)
    /\ \A j \in 0 .. 7 : UnderPointer(call.r, j) => j = call.index
    /\ call.category = SEGMENTS[call.index + 1]
    /\ call.r = 1840 => call.index = 7

\* The rotation 1840 has been resolved, to "Until Playoffs".
C6_Witness ==
  /\ call.fn = "resolve" /\ call.done
  /\ call.r = 1840
  /\ call.category = "Until Playoffs"

(***************************************************************************)
(* C7.  The resolved segment index lies in 0..7, so the category handed to *)
(* the fetcher is a member of the Category Set, never undefined; a         *)
(* rotation that is an exact multiple of 360 resolves to index 0.          *)
(***************************************************************************)
C7_IndexInRange ==
  (call.fn = "resolve" /\ call.done) =>
    /\ call.index \in 0 .. 7
    /\ call.category \in Categories
    /\ call.category # Undefined
    /\ (call.r % 360 = 0) => call.index = 0

\* A rotation of five full turns, which a spin can store, has been
\* resolved to the first category.
C7_Witness ==
  /\ call.fn = "resolve" /\ call.done
  /\ call.r = 1800
  /\ call.index = 0
  /\ call.category = "Day-to-Day"

(***************************************************************************)
(* C8.  Resolution is periodic in full turns: r and r + 360 k resolve to   *)
(* the same segment index, for every r >= 0 and k >= 0.                    *)
(***************************************************************************)
C8_Periodic ==
  (call.fn = "resolve" /\ call.done) => call.shifted = call.index

\* A rotation off every segment boundary has been resolved together with
\* the rotation two turns further.
C8_Witness ==
  /\ call.fn = "resolve" /\ call.done
  /\ call.k = 2
  /\ call.r = 401
  /\ call.shifted = 7

(***************************************************************************)
(* C9.  For every previous rotation r and every draw, the new target       *)
(* rotation satisfies 5*360 <= newRotation - r < 10*360: a whole number of *)
(* extra turns in 5..9 plus an offset in 0..359.                           *)
(***************************************************************************)
C9_TargetRange ==
  (call.fn = "nextTarget" /\ call.done) =>
    /\ 5 * 360 <= call.out - call.prev
    /\ call.out - call.prev < 10 * 360
    /\ \E n \in 5 .. 9, o \in 0 .. 359 : call.out - call.prev = (n * 360) + o

\* The largest target has been computed from a non-zero previous rotation:
\* nine extra turns and the largest offset the draws give.
C9_Witness ==
  /\ call.fn = "nextTarget" /\ call.done
  /\ call.prev = 1840
  /\ call.u2 = RandDen - 1 /\ call.u3 = RandDen - 1
  /\ call.out - call.prev >= 9 * 360

(***************************************************************************)
(* C10.  The machine never remains in FetchingOutcome for ever, even when  *)
(* the generation service never responds.                                  *)
(* Violated under SpecTimerFair: generateFunnyInjury awaits the call with  *)
(* no timeout, so handleSpinEnd resumes only when the service settles.     *)
(***************************************************************************)
C10_FetchNeverHangs == FetchingOutcome ~> ~FetchingOutcome

(***************************************************************************)
(* Steps of the spin machine, told apart by what they change.              *)
(***************************************************************************)
\* A spin() is accepted in this step: a resolution callback is scheduled.
AcceptsSpin == lastOp' = "spin" /\ Len(timers') = Len(timers) + 1
\* A resolution callback fires in this step.
FiresCallback == lastOp' = "timer" /\ Len(timers') = Len(timers) - 1
\* A suspended handleSpinEnd resumes in this step.
SettlesFetch == lastOp' = "settle" /\ Len(fetches') = Len(fetches) - 1

(***************************************************************************)
(* C11.  Sessions are strictly serialized: no spin() is accepted between   *)
(* the acceptance of a session and the Result Store update for it, and the *)
(* input gate reopens only once the record of every accepted session has   *)
(* been stored.                                                            *)
(* Violated: the gate is loadingAI alone (C1), open while a timer is       *)
(* pending, so a second session is accepted before the first has stored    *)
(* its record.                                                             *)
(***************************************************************************)
C11_SessionsSerialized ==
  [][ /\ AcceptsSpin => (timers = << >> /\ fetches = << >>)
      /\ (WheelIsSpinning /\ ~WheelIsSpinning') =>
           (SettlesFetch /\ timers' = << >> /\ fetches' = << >>) ]_vars

(***************************************************************************)
(* C12.  Every accepted spin passes through Spinning, FetchingOutcome and  *)
(* Idle in that order: the fetcher is invoked only by the firing of a      *)
(* pending resolution callback, for the category that callback resolves;   *)
(* the firing leads into FetchingOutcome; no step leads from Spinning      *)
(* straight to Idle; and FetchingOutcome is left only by a settlement that *)
(* stores what the fetcher returned (parsed response or fallback).         *)
(***************************************************************************)
C12_PhaseOrder ==
  [][ /\ (fetches' # fetches /\ Len(fetches') >= Len(fetches)) =>
           /\ FiresCallback
           /\ fetches' = Append(fetches, selectedSegment(Head(timers)))
      /\ (timers' # timers /\ Len(timers') <= Len(timers)) =>
           (FiresCallback /\ FetchingOutcome' /\ loadingAI')
      /\ Spinning => ~Idle'
      /\ (FetchingOutcome /\ ~FetchingOutcome') =>
           /\ SettlesFetch
           /\ \E svc \in SpinOutcomes :
                resultData' = generateFunnyInjury(fetches[1], svc).value ]_vars

\* One spin has gone through all three phases: the machine is Idle again
\* after the settlement of the fetch for the rotation 1840.
C12_Witness ==
  /\ Idle
  /\ lastOp = "settle"
  /\ rotation = 1840
  /\ resultFor = "Until Playoffs"

(***************************************************************************)
(* C13.  Resolution is exactly-once per spin.  Step by step: an accepted   *)
(* spin schedules exactly one resolution callback and nothing else does;   *)
(* a callback fires once (it is removed when it fires) and its firing      *)
(* invokes the fetcher exactly once, and nothing else invokes it; a fetch  *)
(* settles once (it is removed when it settles) and its settlement is the  *)
(* only step that writes the Result Store.                                 *)
(***************************************************************************)
C13_ExactlyOnce ==
  [][ /\ Len(timers') > Len(timers) =>
           /\ AcceptsSpin
           /\ timers' = Append(timers, rotation')
           /\ fetches' = fetches
      /\ (timers' # timers /\ Len(timers') <= Len(timers)) =>
           /\ FiresCallback
           /\ timers' = Tail(timers)
           /\ Len(fetches') = Len(fetches) + 1
      /\ Len(fetches') > Len(fetches) =>
           /\ FiresCallback
           /\ fetches' = Append(fetches, selectedSegment(Head(timers)))
      /\ (fetches' # fetches /\ Len(fetches') <= Len(fetches)) =>
           /\ SettlesFetch
           /\ timers' = timers
           /\ \E i \in DOMAIN fetches : fetches' = RemoveAt(fetches, i)
      /\ (resultData' # resultData \/ resultFor' # resultFor) =>
           SettlesFetch
      /\ lastOp' = "settle" => SettlesFetch
      /\ lastOp' = "timer" => FiresCallback ]_vars

\* Two spins have each been resolved, fetched and stored once: nothing is
\* pending after the second settlement.
C13_Witness ==
  /\ lastOp = "settle"
  /\ timers = << >>
  /\ fetches = << >>
  /\ rotation = 3600
  /\ resultFor = "Day-to-Day"

(***************************************************************************)
(* C14.  The Rotation State starts at 0, is non-negative and never         *)
(* decreases; it changes only in the step in which a spin() is accepted,   *)
(* and a rejected spin, the firing of the resolution callback and the      *)
(* settlement of the fetch leave it unchanged.                             *)
(***************************************************************************)
C14_RotationMonotone ==
  /\ rotation = 0
  /\ [][ /\ rotation >= 0
         /\ rotation' >= rotation
         /\ rotation' # rotation => AcceptsSpin
         /\ lastOp' \in { "spinRejected", "timer", "settle" } =>
              rotation' = rotation ]_vars

\* A spin has been rejected, after the callback of an accepted spin has
\* fired, with the rotation that spin stored.
C14_Witness ==
  /\ lastOp = "spinRejected"
  /\ rotation = 1840
  /\ fetches = << "Until Playoffs" >>

(***************************************************************************)
(* C15.  Whenever a resolution callback fires, the rotation it resolves    *)
(* into a category equals the Rotation State stored at that moment, so the *)
(* category sent to the fetcher is the one under the pointer.              *)
(* Violated: the callback resolves the newRotation its closure captured;   *)
(* when a second spin has been accepted meanwhile (C1) the Rotation State  *)
(* has moved on.                                                           *)
(***************************************************************************)
C15_ResolvesStoredRotation ==
  [][ FiresCallback =>
        /\ Head(timers) = rotation
        /\ fetches' = Append(fetches, selectedSegment(rotation)) ]_vars

(***************************************************************************)
(* C16.  isSpinning is false in every reachable state, so the spin guard   *)
(* and the disabled state of the button are loadingAI alone: a spin is     *)
(* rejected exactly when loadingAI is true.                                *)
(***************************************************************************)
C16_GateIsLoadingAI ==
  /\ isSpinning = FALSE
  /\ WheelIsSpinning <=> loadingAI
  /\ lastOp = "spinRejected" => loadingAI
  /\ lastOp = "spin" => ~loadingAI

\* A click has been rejected while a fetch was in flight, and the flag
\* isSpinning is down.
C16_Witness ==
  /\ lastOp = "spinRejected"
  /\ loadingAI
  /\ ~isSpinning
  /\ fetches # << >>
  /\ timers = << >>

(***************************************************************************)
(* C17.  Whenever no resolution timer is pending, no fetch is in flight    *)
(* and a result is stored, the stored record is the one fetched for the    *)
(* category under the pointer at the current Rotation State: the displayed *)
(* result belongs to the most recently accepted spin, whatever the order   *)
(* in which fetches settled.                                               *)
(* Violated: of two overlapping sessions (C1) the one whose fetch settles  *)
(* last writes the Result Store, and that may be the earlier one.          *)
(***************************************************************************)
C17_ResultIsOfLastSpin ==
  (timers = << >> /\ fetches = << >> /\ resultFor # Undefined) =>
    resultFor = selectedSegment(rotation)

====
